---------------------------- MODULE Spec2Model ----------------------------
(***************************************************************************)
(* Model of the sample_logger crate (src/logger/src/sub_func.rs): the two  *)
(* write-once globals TX and MIN_LEVEL_LOG, the producer-side functions    *)
(* internal_send_log / init_logger / init_logger_with_handlers /           *)
(* is_my_level, the log() method generated by the LogLevel derive macro    *)
(* (src/logger_derive/src/lib.rs) and the dispatch thread logger_thread.   *)
(*                                                                         *)
(* Application threads are the elements of Threads.  A thread executes one *)
(* library call at a time; each access to a shared object (TX,             *)
(* MIN_LEVEL_LOG, a channel) is one atomic step.  A channel is identified  *)
(* by the thread whose init call created it (a thread creates at most one).*)
(***************************************************************************)
EXTENDS Integers, Sequences, FiniteSets, TLC

\* ------------------------------------------------------------------ bounds
NThreads == 2            \* application threads
MaxLogs  == 3            \* log calls made in a run, by all threads together
MaxSev   == 1            \* severities of the levels are 0..MaxSev
MaxPat   == 4            \* length of the enumerated time patterns

Threads      == 1..NThreads
Severities   == 0..MaxSev
Thresholds   == {0, MaxSev}          \* the min_level arguments that are tried
HandlerNames == {"A", "B"}           \* caller-supplied handlers

\* the vectors passed to init_logger_with_handlers: both orders of A and B
ExtraLists ==
    {<<a, b>> : a \in HandlerNames, b \in HandlerNames} \ {<<h, h>> : h \in HandlerNames}

\* OnceLock<T>: the empty sequence until set, then the one-element sequence
Unset      == <<>>
IsSet(c)   == c # <<>>
Get(c)     == c[1]
NoRec  == [by |-> 0, seq |-> 0, lvl |-> 0]
NoChan == [open |-> FALSE]

\* a &str / String is the sequence of its characters
ConsolePattern ==
    <<"Y", "Y", "-", "M", "M", "-", "D", "D", " ",
      "H", "H", ":", "M", "M", ":", "S", "S">>
PatternChars == {"Y", "D", "H", "M", "S", "-"}
Patterns ==
    UNION {[1..n -> PatternChars] : n \in 0..MaxPat} \cup {ConsolePattern}

\* the fields of a DateTime<Utc> that the formatter reads
Years == {999, 2005, 2024, 10000}
Instants ==
    {[year |-> y, day |-> 1, hour |-> 0, minute |-> 5, second |-> 9] : y \in Years}
      \cup
    {[year |-> y, day |-> 31, hour |-> 23, minute |-> 59, second |-> 48] : y \in Years}
Epoch == [year |-> 1970, day |-> 1, hour |-> 0, minute |-> 0, second |-> 0]

VARIABLES
    TX,             \* static TX: OnceLock holding the installed channel's id
    MIN_LEVEL_LOG,  \* static MIN_LEVEL_LOG: OnceLock holding the threshold
    chans,          \* per creator thread: the channel + dispatch thread it made
    pc,             \* per thread: position in the library call it executes
    cur,            \* per thread: the LogRecord being submitted, or NoRec
    args,           \* per thread: arguments of its init_logger* call
    nlogs,          \* log calls made so far (the next one tags its record nlogs + 1)
    stderr,         \* number of "Logger thread died!" lines written
    setAt,          \* history: the value of nlogs when MIN_LEVEL_LOG was set
    timestamp,      \* format_log_record_time: the record's timestamp
    pattern,        \* format_log_record_time: the pattern argument
    formatted       \* format_log_record_time: the returned String, once returned

\* the variables of a format_log_record_time call
fmtVars == <<timestamp, pattern, formatted>>

vars == <<TX, MIN_LEVEL_LOG, chans, pc, cur, args, nlogs, stderr, setAt,
          timestamp, pattern, formatted>>

\* ------------------------------------------------------------ LogRecord
\* msg is abstracted to a serial number seq that makes every record unique;
\* by is the thread that built the record
LogRecord(t, n, s) == [by |-> t, seq |-> n, lvl |-> s]

\* ------------------------------------------------------------- channels
Created(c) == chans[c] # NoChan

ConsoleHandler == "console"

\* the handler vector built inside the spawned closure: console first
HandlerListMutant(custom) == custom \o <<ConsoleHandler>>
HandlerList(custom) == <<ConsoleHandler>> \o custom

\* channel() followed by thread::spawn(logger_thread(rx, handlers))
NewChannel(custom) ==
    [open     |-> TRUE,
     handlers |-> HandlerList(custom),
     queue    |-> <<>>,            \* records sent and not yet received
     senders  |-> 1,               \* live Sender handles
     dpc      |-> "recv",          \* dispatch thread: recv/handling/flushing/done/dead
     didx     |-> 0,               \* position of the for loop over handlers
     drec     |-> NoRec,           \* the record bound by `while let Ok(record)`
     handled  |-> [i \in 1..(Len(custom) + 1) |-> <<>>],  \* handle() calls seen by each handler
     flushed  |-> <<>>]            \* handler positions in the order flush() was called

\* mpsc is FIFO: send appends, recv takes the head
EnqueueMutant(q, r) == <<r>> \o q
Enqueue(q, r) == Append(q, r)

\* ---------------------------------------------------------- is_my_level
\* lvl >= *MIN_LEVEL_LOG.get().unwrap_or(&0)
is_my_levelFlipped(lvl) == lvl <= (IF IsSet(MIN_LEVEL_LOG) THEN Get(MIN_LEVEL_LOG) ELSE 0)
is_my_levelMutant(lvl) == lvl > (IF IsSet(MIN_LEVEL_LOG) THEN Get(MIN_LEVEL_LOG) ELSE 0)
is_my_level(lvl) == lvl >= (IF IsSet(MIN_LEVEL_LOG) THEN Get(MIN_LEVEL_LOG) ELSE 0)

Init ==
    /\ TX = Unset
    /\ MIN_LEVEL_LOG = Unset
    /\ chans = [c \in Threads |-> NoChan]
    /\ pc = [t \in Threads |-> "idle"]
    /\ cur = [t \in Threads |-> NoRec]
    /\ args = [t \in Threads |-> [lvl |-> 0, custom |-> <<>>]]
    /\ nlogs = 0
    /\ stderr = 0
    /\ setAt = 0
    /\ timestamp = Epoch
    /\ pattern = ConsolePattern
    /\ formatted = Unset

\* a panic unwinds the calling thread, which never runs again
Panic(t) == pc' = [pc EXCEPT ![t] = "panicked"]

\* ------------------------------------------------ log() of a derived level
\* builds the record and calls internal_send_log; the generated method makes
\* no is_my_level check
Log(t, s) ==
    /\ pc[t] = "idle"
    /\ nlogs < MaxLogs
    /\ nlogs' = nlogs + 1
    /\ cur' = [cur EXCEPT ![t] = LogRecord(t, nlogs + 1, s)]
    /\ pc' = [pc EXCEPT ![t] = "send_check"]
    /\ UNCHANGED <<TX, MIN_LEVEL_LOG, chans, args, stderr, setAt>>
    /\ UNCHANGED fmtVars

\* a call site written as section 6 of the specification asks: is_my_level
\* first, return early if false, else build the record and submit it
GuardedLog(t, s) ==
    /\ pc[t] = "idle"
    /\ nlogs < MaxLogs
    /\ nlogs' = nlogs + 1
    /\ IF is_my_level(s)
         THEN /\ cur' = [cur EXCEPT ![t] = LogRecord(t, nlogs + 1, s)]
              /\ pc' = [pc EXCEPT ![t] = "send_check"]
         ELSE UNCHANGED <<cur, pc>>
    /\ UNCHANGED <<TX, MIN_LEVEL_LOG, chans, args, stderr, setAt>>
    /\ UNCHANGED fmtVars

\* ------------------------------------------------------ internal_send_log
\* `if TX.get().is_none() { init_logger(0); }`
SendCheck(t) ==
    /\ pc[t] = "send_check"
    /\ pc' = [pc EXCEPT ![t] = IF ~IsSet(TX) THEN "init_check" ELSE "send"]
    /\ UNCHANGED <<TX, MIN_LEVEL_LOG, chans, cur, args, nlogs, stderr, setAt>>
    /\ UNCHANGED fmtVars

\* the dispatch thread of c has returned or unwound: its Receiver is dropped
ReceiverDropped(c) == chans[c].dpc \in {"done", "dead"}

\* tx.send(data): Err exactly when the receiver has been dropped
SendResultMutant(c, r) ==
    /\ chans' = [chans EXCEPT ![c].queue = Enqueue(@, r)]
    /\ UNCHANGED stderr
SendResult(c, r) ==
    IF ReceiverDropped(c)
      THEN /\ stderr' = stderr + 1           \* eprintln!("Logger thread died!")
           /\ UNCHANGED chans
      ELSE /\ chans' = [chans EXCEPT ![c].queue = Enqueue(@, r)]
           /\ UNCHANGED stderr

\* the channel made by channel() is unbounded: send never waits for room
HasRoomMutant(c) == Len(chans[c].queue) < 1
HasRoom(c) == TRUE

\* `let tx = TX.get().expect(..); if let Err(_) = tx.send(data) {..}`
\* (TX is read and used in one step: a set OnceLock never changes)
Send(t) ==
    /\ pc[t] = "send"
    /\ IF ~IsSet(TX)
         THEN /\ Panic(t)                    \* expect("Logger not initialized")
              /\ cur' = [cur EXCEPT ![t] = NoRec]
              /\ UNCHANGED <<chans, stderr>>
         ELSE /\ HasRoom(Get(TX))
              /\ SendResult(Get(TX), cur[t])
              /\ pc' = [pc EXCEPT ![t] = "idle"]
              /\ cur' = [cur EXCEPT ![t] = NoRec]
    /\ UNCHANGED <<TX, MIN_LEVEL_LOG, args, nlogs, setAt>>
    /\ UNCHANGED fmtVars

\* ------------------------------------- init_logger, init_logger_with_handlers
\* `if TX.get().is_some() { panic!(..) }`
AlreadyInitializedMutant == FALSE
AlreadyInitialized == IsSet(TX)

NoArgs == [lvl |-> 0, custom |-> <<>>]

\* the entry of init_logger*(custom, min_level): the double-initialization check
InitEntry(t, custom, min_level) ==
    IF AlreadyInitialized
      THEN /\ Panic(t)
           /\ cur' = [cur EXCEPT ![t] = NoRec]
           /\ UNCHANGED args
      ELSE /\ pc' = [pc EXCEPT ![t] = "init_create"]
           /\ args' = [args EXCEPT ![t] = [lvl |-> min_level, custom |-> custom]]
           /\ UNCHANGED cur

\* an application thread calls init_logger(min_level)
init_logger(t, min_level) ==
    /\ pc[t] = "idle"
    /\ InitEntry(t, <<>>, min_level)
    /\ UNCHANGED <<TX, MIN_LEVEL_LOG, chans, nlogs, stderr, setAt>>
    /\ UNCHANGED fmtVars

\* an application thread calls init_logger_with_handlers(custom_handlers, min_level)
init_logger_with_handlers(t, custom_handlers, min_level) ==
    /\ pc[t] = "idle"
    /\ InitEntry(t, custom_handlers, min_level)
    /\ UNCHANGED <<TX, MIN_LEVEL_LOG, chans, nlogs, stderr, setAt>>
    /\ UNCHANGED fmtVars

\* the check of the init_logger(0) called from internal_send_log
InitCheck(t) ==
    /\ pc[t] = "init_check"
    /\ InitEntry(t, <<>>, 0)
    /\ UNCHANGED <<TX, MIN_LEVEL_LOG, chans, nlogs, stderr, setAt>>
    /\ UNCHANGED fmtVars

\* `let (tx, rx) = channel(); std::thread::spawn(..)`
InitCreate(t) ==
    /\ pc[t] = "init_create"
    /\ chans' = [chans EXCEPT ![t] = NewChannel(args[t].custom)]
    /\ pc' = [pc EXCEPT ![t] = "init_set_tx"]
    /\ UNCHANGED <<TX, MIN_LEVEL_LOG, cur, args, nlogs, stderr, setAt>>
    /\ UNCHANGED fmtVars

\* OnceLock::set returns Err, leaving the cell as it is, when it is already set
SetFailsMutant(cell) == FALSE
SetFails(cell) == IsSet(cell)

\* the Sender handed back in Err(tx) is dropped while the panic unwinds
DropRejectedMutant(ch) == ch
DropRejected(ch) == [ch EXCEPT !.senders = 0]

\* on Ok the Sender has moved into the static TX, which is never dropped
StoreSenderMutant(ch) == [ch EXCEPT !.senders = 0]
StoreSender(ch) == ch

\* `TX.set(tx).expect(..)`: on Err the rejected sender is dropped by the panic
InitSetTX(t) ==
    /\ pc[t] = "init_set_tx"
    /\ IF ~SetFails(TX)
         THEN /\ TX' = <<t>>
              /\ pc' = [pc EXCEPT ![t] = "init_set_level"]
              /\ chans' = [chans EXCEPT ![t] = StoreSender(@)]
              /\ UNCHANGED <<cur, args>>
         ELSE /\ Panic(t)
              /\ chans' = [chans EXCEPT ![t] = DropRejected(@)]
              /\ cur' = [cur EXCEPT ![t] = NoRec]
              /\ args' = [args EXCEPT ![t] = NoArgs]
              /\ UNCHANGED TX
    /\ UNCHANGED <<MIN_LEVEL_LOG, nlogs, stderr, setAt>>
    /\ UNCHANGED fmtVars

\* the value stored by MIN_LEVEL_LOG.set(min_level)
StoredLevelMutant(min_level) == 0
StoredLevel(min_level) == min_level

\* `MIN_LEVEL_LOG.set(min_level).expect(..)`, then return to the caller
InitSetLevel(t) ==
    /\ pc[t] = "init_set_level"
    /\ IF ~SetFails(MIN_LEVEL_LOG)
         THEN /\ MIN_LEVEL_LOG' = <<StoredLevel(args[t].lvl)>>
              /\ setAt' = nlogs
              /\ pc' = [pc EXCEPT ![t] = IF cur[t] # NoRec THEN "send" ELSE "idle"]
              /\ UNCHANGED cur
         ELSE /\ Panic(t)
              /\ cur' = [cur EXCEPT ![t] = NoRec]
              /\ UNCHANGED <<MIN_LEVEL_LOG, setAt>>
    /\ UNCHANGED <<TX, chans, args, nlogs, stderr>>
    /\ UNCHANGED fmtVars

\* ----------------------------------------------------------- logger_thread
NHandlers(c) == Len(chans[c].handlers)

\* `while let Ok(record) = rx.recv()`: a record is taken from the queue
Recv(c) ==
    /\ Created(c)
    /\ chans[c].dpc = "recv"
    /\ chans[c].queue # <<>>
    /\ chans' = [chans EXCEPT ![c].drec = Head(chans[c].queue),
                              ![c].queue = Tail(@),
                              ![c].dpc = "handling",
                              ![c].didx = 1]
    /\ UNCHANGED <<TX, MIN_LEVEL_LOG, pc, cur, args, nlogs, stderr, setAt>>
    /\ UNCHANGED fmtVars

\* the position of the handler loop after the handler at i
NextHandlerMutant(c, i) == IF i + 1 >= NHandlers(c) THEN 0 ELSE i + 1
NextHandler(c, i) == IF i = NHandlers(c) THEN 0 ELSE i + 1

\* `handler.handle(&record)` for the handler at didx
Handle(c) ==
    /\ Created(c)
    /\ chans[c].dpc = "handling"
    /\ LET i == chans[c].didx
           n == NextHandler(c, i)
       IN  chans' = [chans EXCEPT ![c].handled[i] = Append(@, chans[c].drec),
                                  ![c].didx = n,
                                  ![c].dpc = IF n = 0 THEN "recv" ELSE "handling",
                                  ![c].drec = IF n = 0 THEN NoRec ELSE @]
    /\ UNCHANGED <<TX, MIN_LEVEL_LOG, pc, cur, args, nlogs, stderr, setAt>>
    /\ UNCHANGED fmtVars

\* a caller-supplied handler panics inside handle(): logger_thread unwinds,
\* dropping the receiver (and what it buffers) without flushing
HandlerPanic(c) ==
    /\ Created(c)
    /\ chans[c].dpc = "handling"
    /\ chans[c].handlers[chans[c].didx] # ConsoleHandler
    /\ chans' = [chans EXCEPT ![c].handled[chans[c].didx] = Append(@, chans[c].drec),
                              ![c].dpc = "dead",
                              ![c].queue = <<>>]
    /\ UNCHANGED <<TX, MIN_LEVEL_LOG, pc, cur, args, nlogs, stderr, setAt>>
    /\ UNCHANGED fmtVars

\* rx.recv() returns Err: no sender is left and nothing is buffered
DisconnectedMutant(c) == chans[c].queue = <<>>
DisconnectedEager(c) == chans[c].queue = <<>> \/ chans[c].senders = 0
Disconnected(c) == chans[c].queue = <<>> /\ chans[c].senders = 0

RecvClosed(c) ==
    /\ Created(c)
    /\ chans[c].dpc = "recv"
    /\ Disconnected(c)
    /\ chans' = [chans EXCEPT ![c].dpc = "flushing", ![c].didx = 1]
    /\ UNCHANGED <<TX, MIN_LEVEL_LOG, pc, cur, args, nlogs, stderr, setAt>>
    /\ UNCHANGED fmtVars

\* `handler.flush()` for the handler at didx; after the last one the thread ends
Flush(c) ==
    /\ Created(c)
    /\ chans[c].dpc = "flushing"
    /\ LET i == chans[c].didx
           n == NextHandler(c, i)
       IN  chans' = [chans EXCEPT ![c].flushed = Append(@, i),
                                  ![c].didx = n,
                                  ![c].dpc = IF n = 0 THEN "done" ELSE "flushing"]
    /\ UNCHANGED <<TX, MIN_LEVEL_LOG, pc, cur, args, nlogs, stderr, setAt>>
    /\ UNCHANGED fmtVars

\* -------------------------------------------------- time formatting
\* the decimal digit d as a character
Digit(d) == <<"0", "1", "2", "3", "4", "5", "6", "7", "8", "9">>[d + 1]

\* i32 `%`: the remainder has the sign of the dividend
Rem(a, b) == IF a >= 0 THEN a % b ELSE -((-a) % b)

\* `n.to_string()`: the decimal digits, no padding, "-" for a negative n
RECURSIVE to_string(_)
to_string(n) ==
    IF n < 0 THEN <<"-">> \o to_string(-n)
    ELSE IF n < 10 THEN <<Digit(n)>>
    ELSE to_string(n \div 10) \o <<Digit(n % 10)>>

\* `format!("{:02}", n)`: zero-padded to a minimum width of 2, sign included
Pad2(n) ==
    LET s == to_string(n)
    IN  IF Len(s) >= 2 THEN s ELSE <<"0">> \o s

\* `s.replace(from, to)`: every non-overlapping match, found left to right
RECURSIVE replace(_, _, _)
replace(s, from, to) ==
    IF Len(s) < Len(from) THEN s
    ELSE IF SubSeq(s, 1, Len(from)) = from
         THEN to \o replace(SubSeq(s, Len(from) + 1, Len(s)), from, to)
         ELSE <<Head(s)>> \o replace(Tail(s), from, to)

\* the six replacements, in the order of the method chain
format_log_record_time(ts, pat) ==
    LET s1 == replace(pat, <<"Y", "Y", "Y", "Y">>, to_string(ts.year))
        s2 == replace(s1, <<"Y", "Y">>, Pad2(Rem(ts.year, 100)))
        s3 == replace(s2, <<"D", "D">>, Pad2(ts.day))
        s4 == replace(s3, <<"H", "H">>, Pad2(ts.hour))
        s5 == replace(s4, <<"M", "M">>, Pad2(ts.minute))
    IN  replace(s5, <<"S", "S">>, Pad2(ts.second))

\* a call format_log_record_time(record, pattern) returns
FormatCall ==
    /\ formatted = Unset
    /\ formatted' = <<format_log_record_time(timestamp, pattern)>>
    /\ UNCHANGED <<TX, MIN_LEVEL_LOG, chans, pc, cur, args, nlogs, stderr, setAt,
                   timestamp, pattern>>

\* the formatter alone, called once on any of the patterns and instants
FormatInit ==
    /\ TX = Unset
    /\ MIN_LEVEL_LOG = Unset
    /\ chans = [c \in Threads |-> NoChan]
    /\ pc = [t \in Threads |-> "idle"]
    /\ cur = [t \in Threads |-> NoRec]
    /\ args = [t \in Threads |-> [lvl |-> 0, custom |-> <<>>]]
    /\ nlogs = 0
    /\ stderr = 0
    /\ setAt = 0
    /\ timestamp \in Instants
    /\ pattern \in Patterns
    /\ formatted = Unset

FormatSpec == FormatInit /\ [][FormatCall]_vars

\* ------------------------------------------------------------ next-state
Next ==
    \/ \E t \in Threads, s \in Severities : Log(t, s)
    \/ \E t \in Threads, s \in Severities : GuardedLog(t, s)
    \/ \E t \in Threads : SendCheck(t)
    \/ \E t \in Threads : Send(t)
    \/ \E t \in Threads, l \in Thresholds : init_logger(t, l)
    \/ \E t \in Threads, l \in Thresholds, h \in ExtraLists :
          init_logger_with_handlers(t, h, l)
    \/ \E t \in Threads : InitCheck(t)
    \/ \E t \in Threads : InitCreate(t)
    \/ \E t \in Threads : InitSetTX(t)
    \/ \E t \in Threads : InitSetLevel(t)
    \/ \E c \in Threads : Recv(c)
    \/ \E c \in Threads : Handle(c)
    \/ \E c \in Threads : HandlerPanic(c)
    \/ \E c \in Threads : RecvClosed(c)
    \/ \E c \in Threads : Flush(c)

Spec == Init /\ [][Next]_vars

\* the steps of the dispatch thread of channel c
Dispatch(c) == Recv(c) \/ Handle(c) \/ RecvClosed(c) \/ Flush(c)

\* the steps of application thread t inside a library call
Running(t) ==
    SendCheck(t) \/ Send(t) \/ InitCheck(t) \/ InitCreate(t) \/ InitSetTX(t)
      \/ InitSetLevel(t)

\* K threads that only submit, nothing initializes explicitly, the only
\* handler is the console handler; every started call and every dispatch
\* thread keeps being scheduled
NextRace ==
    \/ \E t \in Threads, s \in Severities : Log(t, s)
    \/ \E t \in Threads : SendCheck(t)
    \/ \E t \in Threads : Send(t)
    \/ \E t \in Threads : InitCheck(t)
    \/ \E t \in Threads : InitCreate(t)
    \/ \E t \in Threads : InitSetTX(t)
    \/ \E t \in Threads : InitSetLevel(t)
    \/ \E c \in Threads : Recv(c)
    \/ \E c \in Threads : Handle(c)
    \/ \E c \in Threads : RecvClosed(c)
    \/ \E c \in Threads : Flush(c)

RaceSpec ==
    /\ Init
    /\ [][NextRace]_vars
    /\ \A t \in Threads : WF_vars(Running(t))
    /\ \A c \in Threads : WF_vars(Dispatch(c))

\* every call site is written as the protocol asks (no unguarded log())
NextProtocol ==
    \/ \E t \in Threads, s \in Severities : GuardedLog(t, s)
    \/ \E t \in Threads : SendCheck(t)
    \/ \E t \in Threads : Send(t)
    \/ \E t \in Threads, l \in Thresholds : init_logger(t, l)
    \/ \E t \in Threads, l \in Thresholds, h \in ExtraLists :
          init_logger_with_handlers(t, h, l)
    \/ \E t \in Threads : InitCheck(t)
    \/ \E t \in Threads : InitCreate(t)
    \/ \E t \in Threads : InitSetTX(t)
    \/ \E t \in Threads : InitSetLevel(t)
    \/ \E c \in Threads : Recv(c)
    \/ \E c \in Threads : Handle(c)
    \/ \E c \in Threads : HandlerPanic(c)
    \/ \E c \in Threads : RecvClosed(c)
    \/ \E c \in Threads : Flush(c)

ProtocolSpec == Init /\ [][NextProtocol]_vars

TypeOK ==
    /\ TX \in {Unset} \cup {<<c>> : c \in Threads}
    /\ MIN_LEVEL_LOG \in {Unset} \cup {<<l>> : l \in Thresholds}
    /\ pc \in [Threads -> {"idle", "send_check", "init_check", "init_create",
                           "init_set_tx", "init_set_level", "send", "panicked"}]
    /\ nlogs \in 0..MaxLogs
    /\ stderr \in 0..MaxLogs
    /\ setAt \in 0..MaxLogs
    /\ \A c \in Threads : Created(c) =>
          /\ chans[c].dpc \in {"recv", "handling", "flushing", "done", "dead"}
          /\ chans[c].senders \in {0, 1}
          /\ chans[c].didx \in 0..NHandlers(c)

\* ---------------------------------------------------------------- claims
Channels == {c \in Threads : Created(c)}

\* the handle() calls seen by handler i of channel c
Seen(c, i) == chans[c].handled[i]

\* C1: in every interleaving of submit and initialization calls, at most one
\* channel (and so at most one dispatch thread) is ever created.
C1_AtMostOneChannel == Cardinality(Channels) <= 1

\* C2: every handler is handed the records of one producer thread in the
\* order that thread built and submitted them (increasing serial numbers),
\* whatever the other threads submit.
C2_SameProducerFIFO ==
    \A c \in Channels : \A h \in 1..NHandlers(c) :
        \A i, j \in 1..Len(Seen(c, h)) :
            (i < j /\ Seen(c, h)[i].by = Seen(c, h)[j].by)
                => Seen(c, h)[i].seq < Seen(c, h)[j].seq

\* two records of one thread, and one of another thread, reached a handler
C2_Witness ==
    \E c \in Channels : \E i, j, k \in 1..Len(Seen(c, 1)) :
        /\ i < j
        /\ Seen(c, 1)[i].by = Seen(c, 1)[j].by
        /\ Seen(c, 1)[k].by # Seen(c, 1)[i].by

\* an initialization has completed: both write-once cells are set
InitDone == IsSet(TX) /\ IsSet(MIN_LEVEL_LOG)

\* thread t enters init_logger or init_logger_with_handlers
InitCall(t) ==
    \/ \E l \in Thresholds : init_logger(t, l)
    \/ \E l \in Thresholds, h \in ExtraLists : init_logger_with_handlers(t, h, l)

\* C3: a call of init_logger / init_logger_with_handlers made after an
\* initialization has completed panics, and creates no channel or dispatch
\* thread and leaves the installed sender and the threshold as they were.
C3_LaterInitPanics ==
    [][\A t \in Threads :
          (InitDone /\ InitCall(t))
             => /\ pc'[t] = "panicked"
                /\ UNCHANGED <<TX, MIN_LEVEL_LOG, chans>>]_vars

\* the thread whose initialization succeeded has panicked: it can only have
\* done so in a later init call
C3_Witness == InitDone /\ pc[Get(TX)] = "panicked"

\* nothing is left to run: every thread is between calls or has panicked and
\* no dispatch thread can take a step
Quiescent ==
    /\ \A t \in Threads : pc[t] \in {"idle", "panicked"}
    /\ \A c \in Channels : ~ENABLED Dispatch(c)

\* the record with serial number k was handed to the console handler
Delivered(k) ==
    \E c \in Channels : \E i \in 1..Len(Seen(c, 1)) : Seen(c, 1)[i].seq = k

\* C4: when threads race to submit before any initialization, every record
\* is eventually handled by the console handler; stated on the final state
\* of a fairly scheduled run: once nothing is left to run, every record that
\* was submitted has been delivered.
C4_RaceAllDelivered == Quiescent => \A k \in 1..nlogs : Delivered(k)

SuppliedMinLevel == IF InitDone THEN args[Get(TX)].lvl ELSE 0

\* C6: is_my_level(s) is true exactly when s >= min_level, min_level being
\* the argument of the initialization call that succeeded (0 on the implicit
\* path) and 0 while no initialization has completed.
C6_ThresholdIff ==
    \A s \in -1..(MaxSev + 1) : is_my_level(s) <=> s >= SuppliedMinLevel

\* initialized with the positive threshold MaxSev, after which the one log
\* call made so far was filtered out: no record exists anywhere
C6_Witness ==
    /\ InitDone
    /\ Get(MIN_LEVEL_LOG) = MaxSev
    /\ ~is_my_level(MaxSev - 1)
    /\ nlogs = 1
    /\ \A t \in Threads : pc[t] = "idle" /\ cur[t] = NoRec
    /\ \A c \in Channels :
          /\ chans[c].dpc = "recv"
          /\ chans[c].queue = <<>>
          /\ \A h \in 1..NHandlers(c) : Seen(c, h) = <<>>

\* C7: log() of a level whose severity fails is_my_level returns at once: no
\* record is built, nothing is sent, no implicit initialization is started.
C7_FilteredLogIsNoOp ==
    [][\A t \in Threads, s \in Severities :
          (Log(t, s) /\ ~is_my_level(s))
             => UNCHANGED <<TX, MIN_LEVEL_LOG, chans, pc, cur>>]_vars

\* the handler vector of c is the console handler followed by the handlers
\* its creator passed, in the order passed
HandlersAsPassed(c) ==
    /\ chans[c].handlers[1] = ConsoleHandler
    /\ pc[c] # "panicked" => chans[c].handlers = <<ConsoleHandler>> \o args[c].custom

C9_FlushOnceInOrder ==
    \A c \in Channels :
        LET n == NHandlers(c)
            f == chans[c].flushed
        IN  /\ Len(f) <= n
            /\ \A i \in 1..Len(f) : f[i] = i
            /\ chans[c].dpc = "done" <=> Len(f) = n
            /\ chans[c].dpc = "flushing" => chans[c].didx = Len(f) + 1
            /\ (f # <<>> \/ chans[c].dpc = "flushing")
                 => chans[c].senders = 0 /\ chans[c].queue = <<>>
            /\ (chans[c].senders = 0 /\ chans[c].dpc \notin {"done", "dead"})
                 => ENABLED Dispatch(c)

\* a channel with three handlers lost its only sender and its dispatch
\* thread has flushed all three and ended
C9_Witness ==
    \E c \in Channels :
        /\ chans[c].senders = 0
        /\ chans[c].dpc = "done"
        /\ chans[c].flushed = <<1, 2, 3>>

\* thread t completes the send step of internal_send_log
Sends(t) == pc[t] = "send" /\ pc'[t] # "send"

\* C10: once the dispatch thread of the installed channel has exited, a
\* submit returns normally (no panic), writes the diagnostic, hands the
\* record to no handler and leaves the sender and the threshold unchanged;
\* the exited channel never changes again, so every later submit ends the
\* same way.
C10_SendAfterExitReturns ==
    [][/\ \A t \in Threads :
             (Sends(t) /\ IsSet(TX) /\ ReceiverDropped(Get(TX)))
                => /\ pc'[t] = "idle"
                   /\ stderr' = stderr + 1
                   /\ UNCHANGED <<TX, MIN_LEVEL_LOG, chans>>
       /\ \A c \in Channels : ReceiverDropped(c) => chans'[c] = chans[c]]_vars

\* two submits have met the exited dispatch thread and nobody panicked
C10_Witness ==
    /\ IsSet(TX)
    /\ chans[Get(TX)].dpc = "dead"
    /\ stderr >= 2
    /\ \A t \in Threads : pc[t] = "idle"

\* C11: a submit on an initialized logger never waits for the consumer: the
\* send step of a thread that has reached it can always be taken, whatever
\* the number of undelivered records and whatever the dispatch thread does.
C11_SendNeverBlocks ==
    \A t \in Threads : (pc[t] = "send" /\ IsSet(TX)) => ENABLED Send(t)

\* two records were sent and wait in the queue while the dispatch thread is
\* inside the handler loop for an earlier one
C11_Witness ==
    /\ IsSet(TX)
    /\ chans[Get(TX)].dpc = "handling"
    /\ Len(chans[Get(TX)].queue) = 2

\* C12: the sender and the threshold are each written at most once: a set
\* cell never changes again.
C12_WriteOnce ==
    [][/\ IsSet(TX) => TX' = TX
       /\ IsSet(MIN_LEVEL_LOG) => MIN_LEVEL_LOG' = MIN_LEVEL_LOG]_vars

\* both cells are set and a second TX.set has been attempted and rejected
C12_Witness ==
    /\ InitDone
    /\ \E t \in Threads : t # Get(TX) /\ Created(t) /\ pc[t] = "panicked"

C14_ThresholdBeforeSender == IsSet(TX) => IsSet(MIN_LEVEL_LOG)

\* C16: the dispatch thread of the installed channel never leaves its
\* receive loop while no handler fails: its sender lives in the static TX,
\* which nothing drops, so none of its handlers is ever flushed.
C16_InstalledNeverFlushes ==
    IsSet(TX) =>
        /\ chans[Get(TX)].senders = 1
        /\ chans[Get(TX)].dpc \in {"recv", "handling", "dead"}
        /\ chans[Get(TX)].flushed = <<>>

\* the installed dispatch thread has handled every record of the run and
\* waits in recv, with nothing left that could wake it
C16_Witness ==
    /\ InitDone
    /\ nlogs = MaxLogs
    /\ \A t \in Threads : pc[t] \in {"idle", "panicked"}
    /\ chans[Get(TX)].dpc = "recv"
    /\ chans[Get(TX)].queue = <<>>
    /\ Len(Seen(Get(TX), 1)) = MaxLogs

\* channel c is not the one whose sender is in TX
NotInstalled(c) == ~IsSet(TX) \/ Get(TX) # c

\* C17: the dispatch thread of an initialization that fails to install its
\* sender never receives a record; its sender is dropped by the panic, after
\* which it flushes its handlers and ends, never getting stuck before that;
\* every handle() call happens on the installed channel's dispatch thread.
C17_LoserNeverHandles ==
    \A c \in Channels :
        NotInstalled(c) =>
            /\ chans[c].queue = <<>>
            /\ chans[c].drec = NoRec
            /\ \A i \in 1..NHandlers(c) : Seen(c, i) = <<>>
            /\ chans[c].dpc \in {"recv", "flushing", "done"}
            /\ pc[c] = "panicked" <=> chans[c].senders = 0
            /\ (pc[c] = "panicked" /\ chans[c].dpc # "done") => ENABLED Dispatch(c)

\* the loser's dispatch thread has flushed its three handlers and ended
\* without handling anything, while the installed one handled a record
C17_Witness ==
    /\ IsSet(TX)
    /\ Seen(Get(TX), 1) # <<>>
    /\ \E c \in Channels :
          /\ c # Get(TX)
          /\ chans[c].dpc = "done"
          /\ NHandlers(c) = 3
          /\ \A i \in 1..3 : Seen(c, i) = <<>>

\* C18: the threshold stored in MIN_LEVEL_LOG is the argument of the call
\* that installed the sender, and MIN_LEVEL_LOG.set never fails: only that
\* call reaches it, and it finds the cell unset.
C18_ThresholdOfWinner ==
    /\ IsSet(MIN_LEVEL_LOG) =>
          IsSet(TX) /\ Get(MIN_LEVEL_LOG) = args[Get(TX)].lvl
    /\ \A t \in Threads :
          pc[t] = "init_set_level"
             => IsSet(TX) /\ Get(TX) = t /\ ~IsSet(MIN_LEVEL_LOG)

\* the winner stored its threshold while a racing call with another
\* threshold is still about to attempt TX.set
C18_Witness ==
    /\ InitDone
    /\ Get(MIN_LEVEL_LOG) = MaxSev
    /\ \E t \in Threads :
          /\ pc[t] = "init_set_tx"
          /\ args[t].lvl # Get(MIN_LEVEL_LOG)

\* the w low decimal digits of n, zero-padded
RECURSIVE FixedWidth(_, _)
FixedWidth(n, w) ==
    IF w = 0 THEN <<>> ELSE FixedWidth(n \div 10, w - 1) \o <<Digit(n % 10)>>

\* whether token tok starts at the head of s
StartsWith(s, tok) == Len(s) >= Len(tok) /\ SubSeq(s, 1, Len(tok)) = tok

\* the rendering the claim describes, as one left-to-right pass over the
\* pattern: YYYY before YY, every token by its fixed-width number
RECURSIVE Rendered(_, _)
Rendered(pat, ts) ==
    LET Rest(k) == Rendered(SubSeq(pat, k + 1, Len(pat)), ts)
    IN  IF pat = <<>> THEN <<>>
        ELSE IF StartsWith(pat, <<"Y", "Y", "Y", "Y">>)
             THEN FixedWidth(ts.year, 4) \o Rest(4)
        ELSE IF StartsWith(pat, <<"Y", "Y">>)
             THEN FixedWidth(ts.year, 2) \o Rest(2)
        ELSE IF StartsWith(pat, <<"D", "D">>)
             THEN FixedWidth(ts.day, 2) \o Rest(2)
        ELSE IF StartsWith(pat, <<"H", "H">>)
             THEN FixedWidth(ts.hour, 2) \o Rest(2)
        ELSE IF StartsWith(pat, <<"M", "M">>)
             THEN FixedWidth(ts.minute, 2) \o Rest(2)
        ELSE IF StartsWith(pat, <<"S", "S">>)
             THEN FixedWidth(ts.second, 2) \o Rest(2)
        ELSE <<Head(pat)>> \o Rest(1)

\* C15: for every pattern and instant the formatted string has the length of
\* the pattern, with every YYYY replaced by the 4-digit year, every remaining
\* YY by the 2-digit year, every DD, HH, MM, SS by the 2-digit day, hour,
\* minute and second, and every other character unchanged.
C15_FixedWidthRendering ==
    IsSet(formatted) =>
        /\ Len(Get(formatted)) = Len(pattern)
        /\ Get(formatted) = Rendered(pattern, timestamp)

=============================================================================
